---- MODULE Spec2Model ----
(***************************************************************************)
(* A model of the push-to-talk dictation pipeline of soliblue/dictate.     *)
(*                                                                         *)
(* The repository holds two generations of DictateApp:                     *)
(*   - src/python/dictate_backup.py: hotkey events are deferred to the     *)
(*     main loop (AppHelper.callAfter), one worker thread drains a         *)
(*     queue.Queue of ("warmup",) / ("transcribe",) tasks, the focus       *)
(*     snapshot is self.source_app.  Specification Spec.                   *)
(*   - src/python/dictate.py: hotkey events call start/stop directly, a    *)
(*     thread is spawned per transcription, and the recent transcriptions  *)
(*     are kept in self.recent_transcriptions.  Specification SpecH.       *)
(* Both share the fields recording and audio_data and the audio callback.  *)
(***************************************************************************)
EXTENDS Integers, Sequences, FiniteSets, TLC

VARIABLES
    recording,       \* self.recording
    audio_data,      \* self.audio_data: the list of captured blocks
    cb_block,        \* audio_callback: <<block>> once the flag was read
    source_app,      \* self.source_app (queue generation)
    work_queue,      \* self.work_queue
    main_queue,      \* callbacks handed to AppHelper.callAfter, not yet run
    wpc,             \* transcription_worker: position of the worker thread
    wjob,            \* the task the worker took last
    waudio,          \* do_transcription: local `audio`
    wtext,           \* do_transcription: local `text`
    wfront,          \* history: the frontmost application when the call began,
                     \* "switched" once the call returned under another one,
                     \* and what paste_text found before the clipboard is set
    session_app,     \* history: the frontmost application at the last start
    in_flight,       \* calls of mlx_whisper.transcribe that have not returned
    frontmost,       \* NSWorkspace frontmostApplication
    clipboard,       \* the system clipboard (pbcopy)
    wlog,            \* history: what the worker did for the task it took last
    nstart,          \* history: start_recording executions (session ids)
    nstop,           \* history: stop_recording executions
    nput,            \* history: tasks put on work_queue
    nblk,            \* history: blocks accepted by audio_callback
    nev,             \* history: hotkey and menu events counted so far
    last_op,         \* history: the handler that ran last, and what it saw
    threads,         \* per-transcription threads (thread generation)
    recent_transcriptions, \* self.recent_transcriptions (thread generation)
    recent_menu,     \* self.recent_menu: the text each item copies when clicked
    dir_exists,      \* TRANSCRIPTS_DIR.exists()
    transcripts,     \* the *.txt files under TRANSCRIPTS_DIR
    clock,           \* datetime.now(), in ticks
    nrec,            \* history: entries ever inserted into the recent list
    d_pc,            \* full_distribution: the statement it is at
    d_args,          \* full_distribution: skip_build, skip_upload
    d_env,           \* what the script finds: environment, packages, project
    d_log,           \* history: the steps called, with their results
    d_ret            \* what full_distribution returned: "True", "False"

vars == <<recording, audio_data, cb_block, source_app, work_queue, main_queue,
          wpc, wjob, waudio, wtext, wfront, session_app, in_flight, frontmost,
          clipboard, wlog,
          nstart, nstop, nput, nblk, nev, last_op,
          threads, recent_transcriptions, recent_menu, dir_exists, transcripts,
          clock, nrec, d_pc, d_args, d_env, d_log, d_ret>>

qvars == <<source_app, work_queue, main_queue, wpc, wjob, waudio, wtext,
           wfront, session_app, in_flight, wlog, nput>>

hvars == <<threads, recent_transcriptions, recent_menu, dir_exists,
           transcripts, clock, nrec>>

\* what the distribution script finds when it runs: a Gemini API key, the
\* modules it tries to import, the Xcode project, the App Store API key and
\* a .pkg in the export directory
EnvNames == {"api_key", "google_genai", "pillow", "project", "store_key",
             "pkg"}

\* src/python/appstore/distribute.py, a script of its own
dvars == <<d_pc, d_args, d_env, d_log, d_ret>>

----------------------------------------------------------------------------
(* Bounds of the model. *)

MaxEvents == 4      \* hotkey / menu events counted in one run
MaxBlocks == 2      \* audio blocks accepted in one run

(* Program constants. *)

SAMPLE_RATE == 16000
MIN_RECORD_TENTHS == 3          \* MIN_RECORD_SECONDS = 0.3, in tenths of 1 s
MIN_RECORD_SAMPLES == 4800      \* 0.3 s of samples at 16 kHz
HISTORY_LIMIT == 5              \* the [:5] of the recent list

None == "None"
HOTKEY == "alt_r"
Keys == {HOTKEY, "other"}
Apps == {"X", "Y"}
BlockSizes == {1600, 4800}

(* What the model collaborator may return: result["text"] as a character  *)
(* sequence, before .strip().                                              *)
RawTexts == { <<" ">>, <<" ", "a", " ">> }

IsSpace(c) == c = " "

RECURSIVE LStrip(_)
LStrip(s) == IF s # <<>> /\ IsSpace(Head(s)) THEN LStrip(Tail(s)) ELSE s

RECURSIVE RStrip(_)
RStrip(s) ==
    IF s # <<>> /\ IsSpace(s[Len(s)])
    THEN RStrip(SubSeq(s, 1, Len(s) - 1))
    ELSE s

Strip(s) == RStrip(LStrip(s))

RECURSIVE Samples(_)
Samples(blocks) ==
    IF blocks = <<>> THEN 0 ELSE Head(blocks).size + Samples(Tail(blocks))

\* a duration test that also rejects a recording of exactly 0.3 s
TooShort_inclusive(audio) ==
    Samples(audio) * 10 <= MIN_RECORD_TENTHS * SAMPLE_RATE

\* `duration = len(audio) / SAMPLE_RATE`, `duration < MIN_RECORD_SECONDS`
TooShort(audio) == Samples(audio) * 10 < MIN_RECORD_TENTHS * SAMPLE_RATE

Log(ev, job, arg) == [ev |-> ev, job |-> job, arg |-> arg]

NoTask == [kind |-> "none", id |-> 0, sid |-> 0, frames |-> <<>>, app |-> None]

\* what the clipboard held before the application started
OldClipboard == <<"?">>

\* ("warmup",) -- id, sid, frames and app are history: the task's place in
\* submission order, and the session that put it, with its blocks and the
\* application that was frontmost when it started
WarmupTask ==
    [kind |-> "warmup", id |-> 1, sid |-> 0, frames |-> <<>>, app |-> None]

----------------------------------------------------------------------------
(* Construction: DictateApp.__init__ of the queue generation. *)

\* what __init__ sets apart from the work queue
InitFields ==
    /\ recording = FALSE
    /\ audio_data = <<>>
    /\ cb_block = <<>>
    /\ source_app = None
    /\ main_queue = <<>>
    /\ wpc = "idle"
    /\ wjob = NoTask
    /\ waudio = <<>>
    /\ wtext = <<>>
    /\ wfront = None
    /\ session_app = None
    /\ in_flight = 0
    /\ frontmost \in Apps
    /\ clipboard = OldClipboard
    /\ wlog = <<>>
    /\ nstart = 0
    /\ nstop = 0
    /\ nblk = 0
    /\ nev = 0
    /\ last_op = [op |-> "init"]
    /\ threads = <<>>
    /\ recent_transcriptions = <<>>
    /\ recent_menu = <<>>
    /\ dir_exists = FALSE
    /\ transcripts = {}
    /\ clock = 0
    /\ nrec = 0

\* the distribution script is not run
DistOff ==
    /\ d_pc = "off"
    /\ d_args = [skip_build |-> FALSE, skip_upload |-> FALSE]
    /\ d_env = [n \in EnvNames |-> FALSE]
    /\ d_log = <<>>
    /\ d_ret = None

\* a construction that submits no warmup task
Init_without_warmup ==
    /\ InitFields
    /\ DistOff
    /\ work_queue = <<>>
    /\ nput = 0

\* the worker thread is started and ("warmup",) is put before the stream
\* and the listener are started
Init ==
    /\ InitFields
    /\ DistOff
    /\ work_queue = <<WarmupTask>>
    /\ nput = 1

----------------------------------------------------------------------------
(* The audio input thread. *)

\* `if self.recording:` -- the flag is read, the block is copied
AudioCallbackRead ==
    /\ cb_block = <<>>
    /\ nblk < MaxBlocks
    /\ recording
    /\ \E z \in BlockSizes :
          cb_block' = <<[id |-> nblk + 1, sid |-> nstart, size |-> z]>>
    /\ nblk' = nblk + 1
    /\ UNCHANGED <<recording, audio_data, frontmost, clipboard, nstart, nstop,
                   nev, last_op, qvars, hvars, dvars>>

\* a callback that clears the flag once its block is appended
AudioCallbackAppend_clears_flag ==
    /\ cb_block # <<>>
    /\ audio_data' = audio_data \o cb_block
    /\ cb_block' = <<>>
    /\ recording' = FALSE
    /\ UNCHANGED <<frontmost, clipboard, nstart, nstop, nblk, nev, last_op,
                   qvars, hvars, dvars>>

\* `self.audio_data.append(indata.copy())`
AudioCallbackAppend ==
    /\ cb_block # <<>>
    /\ audio_data' = audio_data \o cb_block
    /\ cb_block' = <<>>
    /\ UNCHANGED <<recording, frontmost, clipboard, nstart, nstop, nblk, nev,
                   last_op, qvars, hvars, dvars>>

\* the user brings another application to the front
SwitchApp ==
    /\ \E a \in Apps \ {frontmost} : frontmost' = a
    /\ UNCHANGED <<recording, audio_data, cb_block, clipboard, nstart, nstop,
                   nblk, nev, last_op, qvars, hvars, dvars>>

----------------------------------------------------------------------------
(* The queue generation: src/python/dictate_backup.py *)

start_recording ==
    /\ audio_data' = <<>>
    /\ source_app' = frontmost
    /\ recording' = TRUE
    /\ nstart' = nstart + 1
    /\ session_app' = frontmost
    /\ last_op' = [op |-> "start", was_recording |-> recording]
    /\ UNCHANGED <<work_queue, nput, nstop>>

\* a work queue of capacity 1: put() blocks while a task is waiting
QueueCanPut_maxsize_1(q) == Len(q) < 1

\* `self.work_queue = queue.Queue()`: no maxsize, put() never waits
QueueCanPut(q) == TRUE

\* history of a stop: it puts a task behind a waiting one while the worker
\* is inside a call of the model
PutWhileBusy == audio_data # <<>> /\ work_queue # <<>> /\ in_flight > 0

\* a stop that tests the duration itself and drops a short recording
stop_recording_drops_short ==
    /\ recording' = FALSE
    /\ nstop' = nstop + 1
    /\ last_op' = [op |-> "stop", was_recording |-> recording,
                   samples |-> Samples(audio_data),
                   signal |-> IF Samples(audio_data) < MIN_RECORD_SAMPLES
                              THEN "too_short" ELSE "recording_stopped",
                   busy |-> PutWhileBusy]
    /\ IF Samples(audio_data) >= MIN_RECORD_SAMPLES
       THEN /\ work_queue' = Append(work_queue,
                   [kind |-> "transcribe", id |-> nput + 1, sid |-> nstart,
                    frames |-> audio_data, app |-> session_app])
            /\ nput' = nput + 1
       ELSE UNCHANGED <<work_queue, nput>>
    /\ UNCHANGED <<audio_data, source_app, nstart, session_app>>

\* a stop that signals "too short" instead of "recording stopped" when the
\* recording is short
stop_recording_signals_short ==
    /\ recording' = FALSE
    /\ nstop' = nstop + 1
    /\ last_op' = [op |-> "stop", was_recording |-> recording,
                   samples |-> Samples(audio_data),
                   signal |-> IF Samples(audio_data) < MIN_RECORD_SAMPLES
                              THEN "too_short" ELSE "recording_stopped",
                   busy |-> PutWhileBusy]
    /\ IF audio_data # <<>>
       THEN /\ QueueCanPut(work_queue)
            /\ work_queue' = Append(work_queue,
                   [kind |-> "transcribe", id |-> nput + 1, sid |-> nstart,
                    frames |-> audio_data, app |-> session_app])
            /\ nput' = nput + 1
       ELSE UNCHANGED <<work_queue, nput>>
    /\ UNCHANGED <<audio_data, source_app, nstart, session_app>>

\* a stop that puts a task whatever the buffer holds
stop_recording_always_puts ==
    /\ recording' = FALSE
    /\ nstop' = nstop + 1
    /\ last_op' = [op |-> "stop", was_recording |-> recording,
                   samples |-> Samples(audio_data),
                   signal |-> "recording_stopped",
                   busy |-> PutWhileBusy]
    /\ work_queue' = Append(work_queue,
            [kind |-> "transcribe", id |-> nput + 1, sid |-> nstart,
             frames |-> audio_data, app |-> session_app])
    /\ nput' = nput + 1
    /\ UNCHANGED <<audio_data, source_app, nstart, session_app>>

\* stop_recording: the flag is cleared, "Recording stopped" is notified
\* whatever was captured, and a task is put when the buffer is not empty
stop_recording ==
    /\ recording' = FALSE
    /\ nstop' = nstop + 1
    /\ last_op' = [op |-> "stop", was_recording |-> recording,
                   samples |-> Samples(audio_data),
                   signal |-> "recording_stopped",
                   busy |-> PutWhileBusy]
    /\ IF audio_data # <<>>
       THEN /\ QueueCanPut(work_queue)
            /\ work_queue' = Append(work_queue,
                   [kind |-> "transcribe", id |-> nput + 1, sid |-> nstart,
                    frames |-> audio_data, app |-> session_app])
            /\ nput' = nput + 1
       ELSE UNCHANGED <<work_queue, nput>>
    /\ UNCHANGED <<audio_data, source_app, nstart, session_app>>

\* what the listener thread leaves alone, whatever the key
lframe == <<recording, audio_data, cb_block, source_app, work_queue, wpc, wjob,
            waudio, wtext, wfront, session_app, in_flight, frontmost,
            clipboard, wlog, nstart, nstop, nput, nblk, hvars, dvars>>

\* the history of a hotkey event: which one, and the flag it found
KeyEvent(op) ==
    /\ nev' = nev + 1
    /\ last_op' = [op |-> op, was_recording |-> recording]

\* the history of an event of another key
OtherKey == last_op' = [op |-> "other", was_recording |-> recording]

\* an on_press without the test `key == HOTKEY`: any key is the hotkey
on_press_unfiltered ==
    /\ nev < MaxEvents
    /\ \E key \in Keys :
          /\ nev' = nev + 1
          /\ IF key = HOTKEY
             THEN last_op' = [op |-> "press", was_recording |-> recording]
             ELSE OtherKey
          /\ main_queue' = IF ~recording
                           THEN Append(main_queue, "start")
                           ELSE main_queue
    /\ UNCHANGED lframe

\* an on_press that schedules a start whatever the flag says
on_press_unguarded ==
    /\ nev < MaxEvents
    /\ \E key \in Keys :
          IF key = HOTKEY
          THEN /\ main_queue' = Append(main_queue, "start")
               /\ KeyEvent("press")
          ELSE UNCHANGED <<main_queue, nev, last_op>>
    /\ UNCHANGED lframe

\* the listener thread: a key goes down
on_press ==
    /\ nev < MaxEvents
    /\ \E key \in Keys :
          IF key = HOTKEY
          THEN /\ KeyEvent("press")
               /\ main_queue' = IF ~recording
                                THEN Append(main_queue, "start")
                                ELSE main_queue
          ELSE OtherKey /\ UNCHANGED <<main_queue, nev>>
    /\ UNCHANGED lframe

\* an on_release that schedules a stop whatever the flag says
on_release_unguarded ==
    /\ nev < MaxEvents
    /\ \E key \in Keys :
          IF key = HOTKEY
          THEN /\ main_queue' = Append(main_queue, "stop")
               /\ KeyEvent("release")
          ELSE UNCHANGED <<main_queue, nev, last_op>>
    /\ UNCHANGED lframe

\* the listener thread: a key goes up
on_release ==
    /\ nev < MaxEvents
    /\ \E key \in Keys :
          IF key = HOTKEY
          THEN /\ KeyEvent("release")
               /\ main_queue' = IF recording
                                THEN Append(main_queue, "stop")
                                ELSE main_queue
          ELSE OtherKey /\ UNCHANGED <<main_queue, nev>>
    /\ UNCHANGED lframe

\* a main loop that holds the callbacks back until the worker is between
\* two tasks and the work queue is empty
MainLoopRun_after_drain ==
    /\ main_queue # <<>>
    /\ wpc = "idle" /\ work_queue = <<>>
    /\ main_queue' = Tail(main_queue)
    /\ IF Head(main_queue) = "start" THEN start_recording ELSE stop_recording
    /\ UNCHANGED <<cb_block, wpc, wjob, waudio, wtext, wfront, in_flight,
                   frontmost, clipboard, wlog, nblk, nev, hvars, dvars>>

\* the main loop runs the next callback handed to AppHelper.callAfter
MainLoopRun ==
    /\ main_queue # <<>>
    /\ main_queue' = Tail(main_queue)
    /\ IF Head(main_queue) = "start" THEN start_recording ELSE stop_recording
    /\ UNCHANGED <<cb_block, wpc, wjob, waudio, wtext, wfront, in_flight,
                   frontmost, clipboard, wlog, nblk, nev, hvars, dvars>>

\* a menu item that sets the clipboard itself when it stops the recording
toggle_recording_copies_inline ==
    /\ nev < MaxEvents
    /\ nev' = nev + 1
    /\ IF recording
       THEN stop_recording /\ clipboard' = <<"a">>
       ELSE start_recording /\ clipboard' = clipboard
    /\ UNCHANGED <<cb_block, main_queue, wpc, wjob, waudio, wtext, wfront,
                   in_flight, frontmost, wlog, nblk, hvars, dvars>>

\* the menu item, on the main loop
toggle_recording ==
    /\ nev < MaxEvents
    /\ nev' = nev + 1
    /\ IF recording THEN stop_recording ELSE start_recording
    /\ UNCHANGED <<cb_block, main_queue, wpc, wjob, waudio, wtext, wfront,
                   in_flight, frontmost, clipboard, wlog, nblk, hvars, dvars>>

----------------------------------------------------------------------------
(* transcription_worker: the one thread that drains work_queue. *)

\* what the main thread and the audio thread own; the worker leaves it alone
wframe == <<recording, audio_data, cb_block, main_queue, session_app, nstart,
            nstop, nput, nblk, nev, last_op, hvars, dvars>>

\* a get() that takes the newest task
QueuePop_lifo(q) == [task |-> q[Len(q)], rest |-> SubSeq(q, 1, Len(q) - 1)]

\* queue.Queue.get(): the oldest task leaves the queue
QueuePop(q) == [task |-> Head(q), rest |-> Tail(q)]

\* a worker that takes the next task while a call is still in flight
WorkerCanGet_reentrant == wpc \in {"idle", "warmup", "call"}

\* `while True: task = self.work_queue.get()` -- only between two tasks
WorkerCanGet == wpc = "idle"

\* the log restarts with the task; its "get" entry keeps the session of the
\* task taken before
WorkerGet ==
    /\ WorkerCanGet
    /\ work_queue # <<>>
    /\ wjob' = QueuePop(work_queue).task
    /\ work_queue' = QueuePop(work_queue).rest
    /\ IF wjob'.kind = "warmup"
       THEN /\ wpc' = "warmup"
            /\ in_flight' = in_flight + 1
            /\ wlog' = <<Log("get", wjob'.id, wjob.sid),
                         Log("call", wjob'.id, <<>>)>>
       ELSE /\ wpc' = "check"
            /\ in_flight' = in_flight
            /\ wlog' = <<Log("get", wjob'.id, wjob.sid)>>
    /\ UNCHANGED <<source_app, waudio, wtext, wfront, frontmost, clipboard,
                   wframe>>

\* the warmup call returns: `self.icon = mic.png`, back to get()
WarmupReturn ==
    /\ wpc = "warmup"
    /\ in_flight' = in_flight - 1
    /\ wpc' = "idle"
    /\ wlog' = Append(wlog, Log("done", wjob.id, "warm"))
    /\ UNCHANGED <<source_app, work_queue, wjob, waudio, wtext, wfront,
                   frontmost, clipboard, wframe>>

\* an exception leaves transcription_worker: nothing catches it
WorkerRaise(reason) ==
    /\ wpc' = "dead"
    /\ wlog' = Append(wlog, Log("raise", wjob.id, reason))

\* the warmup call raises
WarmupRaise ==
    /\ wpc = "warmup"
    /\ in_flight' = in_flight - 1
    /\ WorkerRaise("model")
    /\ UNCHANGED <<source_app, work_queue, wjob, waudio, wtext, wfront,
                   frontmost, clipboard, wframe>>

\* do_transcription: `if not self.audio_data: return`
DoTranscriptionCheck ==
    /\ wpc = "check"
    /\ IF audio_data = <<>>
       THEN /\ wpc' = "idle"
            /\ wlog' = Append(wlog, Log("done", wjob.id, "no_audio"))
       ELSE /\ wpc' = "concat"
            /\ wlog' = wlog
    /\ UNCHANGED <<source_app, work_queue, wjob, waudio, wtext, wfront,
                   in_flight, frontmost, clipboard, wframe>>

\* do_transcription: np.concatenate(self.audio_data), the duration test, and
\* the call of mlx_whisper.transcribe(audio, language="en")
DoTranscriptionConcat ==
    /\ wpc = "concat"
    /\ IF audio_data = <<>>
       THEN \* np.concatenate([]) raises ValueError
            /\ WorkerRaise("concatenate")
            /\ UNCHANGED <<waudio, wfront, in_flight>>
       ELSE IF TooShort(audio_data)
            THEN \* notification "Recording too short"; return
                 /\ wpc' = "idle"
                 /\ wlog' = wlog \o <<Log("too_short", wjob.id, audio_data),
                                      Log("done", wjob.id, "too_short")>>
                 /\ UNCHANGED <<waudio, wfront, in_flight>>
            ELSE /\ wpc' = "call"
                 /\ waudio' = audio_data
                 /\ wlog' = Append(wlog, Log("call", wjob.id, audio_data))
                 /\ in_flight' = in_flight + 1
                 /\ wfront' = frontmost
    /\ UNCHANGED <<source_app, work_queue, wjob, wtext, frontmost, clipboard,
                   wframe>>

\* the model returns: `text = result["text"].strip()`, `if text:`
TranscribeReturn ==
    /\ wpc = "call"
    /\ in_flight' = in_flight - 1
    /\ waudio' = <<>>
    /\ \E raw \in RawTexts :
          IF Strip(raw) # <<>>
          THEN /\ wpc' = "paste"
               /\ wtext' = Strip(raw)
               /\ wlog' = Append(wlog, Log("text", wjob.id, raw))
               /\ source_app' = source_app
               /\ wfront' = IF wfront = wjob.app /\ frontmost # wjob.app
                            THEN "switched" ELSE None
          ELSE \* notification "No transcription"; self.source_app = None
               /\ wpc' = "idle"
               /\ wtext' = <<>>
               /\ wlog' = wlog \o <<Log("text", wjob.id, raw),
                                    Log("empty", wjob.id, None),
                                    Log("done", wjob.id, "empty")>>
               /\ source_app' = None
               /\ wfront' = None
    /\ UNCHANGED <<work_queue, wjob, frontmost, clipboard, wframe>>

\* the model raises
TranscribeRaise ==
    /\ wpc = "call"
    /\ in_flight' = in_flight - 1
    /\ wfront' = None
    /\ WorkerRaise("model")
    /\ UNCHANGED <<source_app, work_queue, wjob, waudio, wtext, frontmost,
                   clipboard, wframe>>

\* history of paste_text's first step: was the reference set, and was its
\* application frontmost already
FocusCase ==
    IF source_app = None THEN None
    ELSE IF source_app = frontmost THEN "same" ELSE "other"

\* a paste_text that activates the application only when it is not the
\* frontmost one
PasteActivate_if_differs ==
    /\ wpc = "paste"
    /\ wpc' = "pbcopy"
    /\ wfront' = FocusCase
    /\ IF source_app # None /\ source_app # frontmost
       THEN /\ frontmost' = source_app
            /\ wlog' = Append(wlog, Log("activate", wjob.id, source_app))
       ELSE UNCHANGED <<frontmost, wlog>>
    /\ UNCHANGED <<source_app, work_queue, wjob, waudio, wtext, in_flight,
                   clipboard, wframe>>

\* paste_text: `if self.source_app: self.source_app.activateWithOptions_(2)`
PasteActivate ==
    /\ wpc = "paste"
    /\ wpc' = "pbcopy"
    /\ wfront' = FocusCase
    /\ IF source_app # None
       THEN /\ frontmost' = source_app
            /\ wlog' = Append(wlog, Log("activate", wjob.id, source_app))
       ELSE UNCHANGED <<frontmost, wlog>>
    /\ UNCHANGED <<source_app, work_queue, wjob, waudio, wtext, in_flight,
                   clipboard, wframe>>

\* paste_text: subprocess.run(["pbcopy"], input=text.encode())
PasteCopy ==
    /\ wpc = "pbcopy"
    /\ wpc' = "tap"
    /\ clipboard' = wtext
    /\ wfront' = None
    /\ wlog' = Append(wlog, Log("pbcopy", wjob.id, wtext))
    /\ UNCHANGED <<source_app, work_queue, wjob, waudio, wtext, in_flight,
                   frontmost, wframe>>

\* paste_text: cmd+v goes to the frontmost application
PasteTap ==
    /\ wpc = "tap"
    /\ wpc' = "save"
    /\ wlog' = Append(wlog, Log("paste", wjob.id,
                                [app |-> frontmost, text |-> clipboard]))
    /\ UNCHANGED <<source_app, work_queue, wjob, waudio, wtext, wfront,
                   in_flight, frontmost, clipboard, wframe>>

\* do_transcription: write_text(text), then `self.source_app = None`
SaveTranscript ==
    /\ wpc = "save"
    /\ wpc' = "idle"
    /\ source_app' = None
    /\ wtext' = <<>>
    /\ wlog' = wlog \o <<Log("saved", wjob.id, wtext),
                         Log("done", wjob.id, "pasted")>>
    /\ UNCHANGED <<work_queue, wjob, waudio, wfront, in_flight, frontmost,
                   clipboard, wframe>>

\* write_text raises (disk full, no permission)
SaveRaise ==
    /\ wpc = "save"
    /\ WorkerRaise("write")
    /\ UNCHANGED <<source_app, work_queue, wjob, waudio, wtext, wfront,
                   in_flight, frontmost, clipboard, wframe>>

Worker ==
    \/ WorkerGet
    \/ WarmupReturn
    \/ WarmupRaise
    \/ DoTranscriptionCheck
    \/ DoTranscriptionConcat
    \/ TranscribeReturn
    \/ TranscribeRaise
    \/ PasteActivate
    \/ PasteCopy
    \/ PasteTap
    \/ SaveTranscript
    \/ SaveRaise

Next ==
    \/ AudioCallbackRead
    \/ AudioCallbackAppend
    \/ SwitchApp
    \/ on_press
    \/ on_release
    \/ MainLoopRun
    \/ toggle_recording
    \/ Worker

Spec == Init /\ [][Next]_vars

\* the worker thread is scheduled fairly, and a call of the model returns or
\* raises
SpecFair == Spec /\ WF_vars(Worker)

----------------------------------------------------------------------------
(* The thread generation: src/python/dictate.py *)

\* what result["text"] may be there: two texts, to tell two threads apart
RawTextsH == { <<" ">>, <<" ", "a", " ">>, <<"b">> }

Take(s, n) == SubSeq(s, 1, IF Len(s) < n THEN Len(s) ELSE n)

\* the file of a set with the largest st_mtime
Newest(files) == CHOOSE f \in files : \A g \in files : g.mtime <= f.mtime

\* the file of a set with the smallest st_mtime
Oldest(files) == CHOOSE f \in files : \A g \in files : f.mtime <= g.mtime

\* a sort without reverse=True: the oldest file comes first
RECURSIVE SortedByMtimeAsc(_)
SortedByMtimeAsc(files) ==
    IF files = {} THEN <<>>
    ELSE <<Oldest(files)>> \o SortedByMtimeAsc(files \ {Oldest(files)})

\* sorted(..., key=lambda f: f.stat().st_mtime, reverse=True)
RECURSIVE SortedByMtimeDesc(_)
SortedByMtimeDesc(files) ==
    IF files = {} THEN <<>>
    ELSE <<Newest(files)>> \o SortedByMtimeDesc(files \ {Newest(files)})

Entry(f) == [ts |-> f.stem, text |-> f.text, ord |-> f.mtime]

\* load_recent_transcriptions: the five newest files, as (stem, text)
LoadRecent(exists, files) ==
    IF exists
    THEN [i \in 1..Len(Take(SortedByMtimeDesc(files), HISTORY_LIMIT)) |->
             Entry(Take(SortedByMtimeDesc(files), HISTORY_LIMIT)[i])]
    ELSE <<>>

\* update_recent_menu: one item per entry, whose callback holds the entry's
\* text (`lambda _, t=text`); an empty list gives one item without callback
MenuOf(list) == [i \in DOMAIN list |-> list[i].text]

\* how many transcript files the startup may find: none, fewer than the
\* limit, more than the limit
SeedCounts == {0, HISTORY_LIMIT - 1, HISTORY_LIMIT + 1}

\* a transcript of an earlier run: a text the model may return
SeedFile(i) == [stem |-> i, mtime |-> i, text |-> <<"a">>]

\* DictateApp.__init__: the recent list is loaded; the warmup call is made
\* before the stream and the listener are started
InitH ==
    /\ recording = FALSE
    /\ audio_data = <<>>
    /\ cb_block = <<>>
    /\ source_app = None
    /\ work_queue = <<>>
    /\ main_queue = <<>>
    /\ wpc = "idle"
    /\ wjob = NoTask
    /\ waudio = <<>>
    /\ wtext = <<>>
    /\ wfront = None
    /\ session_app = None
    /\ in_flight = 0
    /\ frontmost = "X"
    /\ clipboard = OldClipboard
    /\ wlog = <<>>
    /\ nstart = 0
    /\ nstop = 0
    /\ nput = 0
    /\ nblk = 0
    /\ nev = 0
    /\ last_op = [op |-> "init"]
    /\ threads = <<>>
    /\ dir_exists \in BOOLEAN
    /\ \E k \in SeedCounts :
          /\ transcripts = IF dir_exists THEN {SeedFile(i) : i \in 1..k} ELSE {}
          /\ clock = k + 1
          /\ nrec = k
          /\ k > 0 => dir_exists
    /\ recent_transcriptions = LoadRecent(dir_exists, transcripts)
    /\ recent_menu = MenuOf(recent_transcriptions)
    /\ DistOff

hframe == <<recording, audio_data, cb_block, nstart, nstop, nblk, nev, last_op,
            qvars, dvars>>

start_recording_h ==
    /\ audio_data' = <<>>
    /\ recording' = TRUE
    /\ nstart' = nstart + 1
    /\ last_op' = [op |-> "start", was_recording |-> recording]
    /\ UNCHANGED <<threads, nstop>>

NewThread(sid, frames) ==
    [pc |-> "check", sid |-> sid, frames |-> frames, audio |-> <<>>,
     text |-> <<>>, ts |-> 0, tmp |-> <<>>, log |-> <<>>]

stop_recording_h ==
    /\ recording' = FALSE
    /\ nstop' = nstop + 1
    /\ last_op' = [op |-> "stop", was_recording |-> recording,
                   samples |-> Samples(audio_data)]
    /\ IF audio_data # <<>>
       THEN \* threading.Thread(target=self.transcribe_and_paste).start()
            threads' = Append(threads, NewThread(nstart, audio_data))
       ELSE UNCHANGED threads
    /\ UNCHANGED <<audio_data, nstart>>

on_press_h ==
    /\ nev < MaxEvents
    /\ \E key \in Keys :
          IF key = HOTKEY /\ ~recording
          THEN start_recording_h /\ nev' = nev + 1
          ELSE UNCHANGED <<recording, audio_data, nstart, nstop, last_op,
                           threads, nev>>
    /\ UNCHANGED <<cb_block, frontmost, clipboard, nblk, qvars, dvars,
                   recent_transcriptions, recent_menu, dir_exists, transcripts,
                   clock, nrec>>

on_release_h ==
    /\ nev < MaxEvents
    /\ \E key \in Keys :
          IF key = HOTKEY /\ recording
          THEN stop_recording_h /\ nev' = nev + 1
          ELSE UNCHANGED <<recording, audio_data, nstart, nstop, last_op,
                           threads, nev>>
    /\ UNCHANGED <<cb_block, frontmost, clipboard, nblk, qvars, dvars,
                   recent_transcriptions, recent_menu, dir_exists, transcripts,
                   clock, nrec>>

toggle_recording_h ==
    /\ nev < MaxEvents
    /\ nev' = nev + 1
    /\ IF recording THEN stop_recording_h ELSE start_recording_h
    /\ UNCHANGED <<cb_block, frontmost, clipboard, nblk, qvars, dvars,
                   recent_transcriptions, recent_menu, dir_exists, transcripts,
                   clock, nrec>>

\* a menu whose items all copy the text of the last entry the loop saw
MenuText_late_binding(i) == recent_menu[Len(recent_menu)]

\* the text bound to item i when the menu was built
MenuText(i) == recent_menu[i]

\* the items the user may click: the first and the last of the menu
Clicked == {i \in DOMAIN recent_menu : i = 1 \/ i = Len(recent_menu)}

\* a click on an item of the recent menu: copy_transcription(t)
copy_transcription ==
    /\ nev < MaxEvents
    /\ nev' = nev + 1
    /\ \E i \in Clicked :
          /\ clipboard' = MenuText(i)
          /\ last_op' = [op |-> "copy", entry |-> i]
    /\ UNCHANGED <<recording, audio_data, cb_block, frontmost, nstart, nstop,
                   nblk, qvars, dvars, threads, recent_transcriptions,
                   recent_menu, dir_exists, transcripts, clock, nrec>>

\* transcribe_and_paste, one step of thread t
Step(t, pc, ev, arg) ==
    [threads EXCEPT ![t].pc = pc,
                    ![t].log = Append(threads[t].log, [ev |-> ev, arg |-> arg])]

\* `if not self.audio_data: ... return`
TCheck(t) ==
    /\ threads[t].pc = "check"
    /\ threads' = IF audio_data = <<>>
                  THEN Step(t, "done", "done", "no_audio")
                  ELSE [threads EXCEPT ![t].pc = "concat"]
    /\ UNCHANGED <<frontmost, clipboard, recent_transcriptions, recent_menu,
                   dir_exists, transcripts, clock, nrec, hframe>>

\* np.concatenate(self.audio_data), the duration test, the call of the model
TConcat(t) ==
    /\ threads[t].pc = "concat"
    /\ threads' =
          IF audio_data = <<>>
          THEN Step(t, "dead", "raise", "concatenate")
          ELSE IF TooShort(audio_data)
               THEN [Step(t, "done", "too_short", audio_data)
                        EXCEPT ![t].audio = audio_data]
               ELSE [Step(t, "call", "call", audio_data)
                        EXCEPT ![t].audio = audio_data]
    /\ UNCHANGED <<frontmost, clipboard, recent_transcriptions, recent_menu,
                   dir_exists, transcripts, clock, nrec, hframe>>

\* a return that goes on to write and paste whatever the text is
TReturn_ignores_empty(t) ==
    /\ threads[t].pc = "call"
    /\ \E raw \in RawTextsH :
          threads' = [Step(t, "write", "text", raw)
                         EXCEPT ![t].text = Strip(raw)]
    /\ UNCHANGED <<frontmost, clipboard, recent_transcriptions, recent_menu,
                   dir_exists, transcripts, clock, nrec, hframe>>

\* the model returns: `text = result["text"].strip()`, `if text:`
TReturn(t) ==
    /\ threads[t].pc = "call"
    /\ \E raw \in RawTextsH :
          threads' =
             IF Strip(raw) # <<>>
             THEN [Step(t, "write", "text", raw) EXCEPT ![t].text = Strip(raw)]
             ELSE [Step(t, "done", "empty", raw) EXCEPT ![t].text = Strip(raw)]
    /\ UNCHANGED <<frontmost, clipboard, recent_transcriptions, recent_menu,
                   dir_exists, transcripts, clock, nrec, hframe>>

\* the model raises: the thread ends with the exception
TRaise(t) ==
    /\ threads[t].pc = "call"
    /\ threads' = Step(t, "dead", "raise", "model")
    /\ UNCHANGED <<frontmost, clipboard, recent_transcriptions, recent_menu,
                   dir_exists, transcripts, clock, nrec, hframe>>

\* mkdir(exist_ok=True); timestamp = now; transcript_path.write_text(text)
TWrite(t) ==
    /\ threads[t].pc = "write"
    /\ dir_exists' = TRUE
    /\ clock' = clock + 1
    /\ transcripts' = {f \in transcripts : f.stem # clock} \cup
                      {[stem |-> clock, mtime |-> clock,
                        text |-> threads[t].text]}
    /\ threads' = [Step(t, "pbcopy", "saved", threads[t].text)
                      EXCEPT ![t].ts = clock]
    /\ UNCHANGED <<frontmost, clipboard, recent_transcriptions, recent_menu,
                   nrec, hframe>>

\* write_text raises
TWriteRaise(t) ==
    /\ threads[t].pc = "write"
    /\ threads' = Step(t, "dead", "raise", "write")
    /\ UNCHANGED <<frontmost, clipboard, recent_transcriptions, recent_menu,
                   dir_exists, transcripts, clock, nrec, hframe>>

\* subprocess.run(["pbcopy"], input=text.encode())
TCopy(t) ==
    /\ threads[t].pc = "pbcopy"
    /\ clipboard' = threads[t].text
    /\ threads' = Step(t, "tap", "pbcopy", threads[t].text)
    /\ UNCHANGED <<frontmost, recent_transcriptions, recent_menu, dir_exists,
                   transcripts, clock, nrec, hframe>>

\* cmd+v: whatever the clipboard holds is pasted
TTap(t) ==
    /\ threads[t].pc = "tap"
    /\ threads' = Step(t, "insert", "paste", clipboard)
    /\ UNCHANGED <<frontmost, clipboard, recent_transcriptions, recent_menu,
                   dir_exists, transcripts, clock, nrec, hframe>>

\* self.recent_transcriptions.insert(0, (timestamp, text))
Insert(list, e) == <<e>> \o list

TInsert(t) ==
    /\ threads[t].pc = "insert"
    /\ recent_transcriptions' =
          Insert(recent_transcriptions,
                 [ts |-> threads[t].ts, text |-> threads[t].text,
                  ord |-> nrec + 1])
    /\ nrec' = nrec + 1
    /\ threads' = Step(t, "slice", "insert", nrec + 1)
    /\ UNCHANGED <<frontmost, clipboard, recent_menu, dir_exists, transcripts,
                   clock, hframe>>

\* a slice that keeps one entry too many
Truncate_off_by_one(list) == Take(list, HISTORY_LIMIT + 1)

\* the right-hand side of `self.recent_transcriptions = ...[:5]`
Truncate(list) == Take(list, HISTORY_LIMIT)

TSlice(t) ==
    /\ threads[t].pc = "slice"
    /\ threads' = [threads EXCEPT ![t].pc = "store",
                                  ![t].tmp = Truncate(recent_transcriptions)]
    /\ UNCHANGED <<frontmost, clipboard, recent_transcriptions, recent_menu,
                   dir_exists, transcripts, clock, nrec, hframe>>

\* the assignment of the slice, update_recent_menu, loading.hide()
TStore(t) ==
    /\ threads[t].pc = "store"
    /\ recent_transcriptions' = threads[t].tmp
    /\ recent_menu' = MenuOf(threads[t].tmp)
    /\ threads' = Step(t, "done", "done", "pasted")
    /\ UNCHANGED <<frontmost, clipboard, dir_exists, transcripts, clock, nrec,
                   hframe>>

transcribe_and_paste ==
    \E t \in DOMAIN threads :
       \/ TCheck(t)
       \/ TConcat(t)
       \/ TReturn(t)
       \/ TRaise(t)
       \/ TWrite(t)
       \/ TWriteRaise(t)
       \/ TCopy(t)
       \/ TTap(t)
       \/ TInsert(t)
       \/ TSlice(t)
       \/ TStore(t)

NextH ==
    \/ AudioCallbackRead
    \/ AudioCallbackAppend
    \/ on_press_h
    \/ on_release_h
    \/ toggle_recording_h
    \/ copy_transcription
    \/ transcribe_and_paste

SpecH == InitH /\ [][NextH]_vars

----------------------------------------------------------------------------
(* The distribution script: src/python/appstore/distribute.py *)

\* the dictation app is no part of the script's process
appvars == <<recording, audio_data, cb_block, frontmost, clipboard, nstart,
             nstop, nblk, nev, last_op, qvars, hvars>>

\* `python distribute.py --full [--skip-build] [--skip-upload]`
InitD ==
    /\ InitFields
    /\ work_queue = <<>>
    /\ nput = 0
    /\ d_pc = "check"
    /\ d_args \in [skip_build : BOOLEAN, skip_upload : BOOLEAN]
    /\ d_env \in [EnvNames -> BOOLEAN]
    /\ d_log = <<>>
    /\ d_ret = None

\* a step was called and gave this result: "ok", "failed" or "raised"
Called(step, res) == d_log' = Append(d_log, [step |-> step, res |-> res])

\* `return False`
ReturnFalse == d_pc' = "returned" /\ d_ret' = "False"

\* an exception leaves full_distribution
Raised == d_pc' = "returned" /\ d_ret' = "raised"

\* check_requirements: the API key and both imports, or False
RequirementsMet ==
    d_env["api_key"] /\ d_env["google_genai"] /\ d_env["pillow"]

\* `if not check_requirements(): return False`
check_requirements ==
    /\ d_pc = "check"
    /\ IF RequirementsMet
       THEN /\ Called("check_requirements", "ok")
            /\ d_pc' = "screenshots"
            /\ d_ret' = d_ret
       ELSE /\ Called("check_requirements", "failed")
            /\ ReturnFalse
    /\ UNCHANGED <<d_args, d_env, appvars>>

\* a generation step: its result is not tested, an exception of the
\* generator is not caught
Generate(pc, step, next) ==
    /\ d_pc = pc
    /\ \/ /\ Called(step, "ok")
          /\ d_pc' = next
          /\ d_ret' = d_ret
       \/ /\ Called(step, "raised")
          /\ Raised
    /\ UNCHANGED <<d_args, d_env, appvars>>

generate_screenshots ==
    Generate("screenshots", "generate_screenshots", "descriptions")

generate_descriptions ==
    Generate("descriptions", "generate_descriptions", "metadata")

\* generate_metadata, then `if not skip_build:`
generate_metadata ==
    Generate("metadata", "generate_metadata",
             IF d_args.skip_build THEN "complete" ELSE "build")

\* a step whose failure is not tested: the next step runs anyway
Gate_unchecked(pc, step, results, next) ==
    /\ d_pc = pc
    /\ \E res \in results :
          /\ Called(step, res)
          /\ d_pc' = next
          /\ d_ret' = d_ret
    /\ UNCHANGED <<d_args, d_env, appvars>>

\* a step whose result full_distribution tests
Gate(pc, step, results, next) ==
    /\ d_pc = pc
    /\ \E res \in results :
          /\ Called(step, res)
          /\ IF res = "ok"
             THEN d_pc' = next /\ d_ret' = d_ret
             ELSE ReturnFalse
    /\ UNCHANGED <<d_args, d_env, appvars>>

\* build_app: False without the project or when xcodebuild fails
build_app ==
    Gate("build", "build_app",
         IF d_env["project"] THEN {"ok", "failed"} ELSE {"failed"},
         "archive")

\* archive_app: the archive path, or None when xcodebuild fails
archive_app ==
    Gate("archive", "archive_app", {"ok", "failed"}, "export")

\* export_ipa: the export path, or None; then `if not skip_upload:`
export_ipa ==
    Gate("export", "export_ipa", {"ok", "failed"},
         IF d_args.skip_upload THEN "complete" ELSE "upload")

\* upload_to_app_store: False without a .pkg, without the API key or when
\* altool fails; full_distribution does not test the result
upload_to_app_store ==
    /\ d_pc = "upload"
    /\ \E res \in (IF d_env["pkg"] /\ d_env["store_key"]
                    THEN {"ok", "failed"} ELSE {"failed"}) :
          Called("upload_to_app_store", res)
    /\ d_pc' = "complete"
    /\ UNCHANGED <<d_ret, d_args, d_env, appvars>>

\* "DISTRIBUTION COMPLETE"; `return True`
ReturnTrue ==
    /\ d_pc = "complete"
    /\ d_pc' = "returned"
    /\ d_ret' = "True"
    /\ UNCHANGED <<d_log, d_args, d_env, appvars>>

full_distribution ==
    \/ check_requirements
    \/ generate_screenshots
    \/ generate_descriptions
    \/ generate_metadata
    \/ build_app
    \/ archive_app
    \/ export_ipa
    \/ upload_to_app_store
    \/ ReturnTrue

SpecD == InitD /\ [][full_distribution]_vars

----------------------------------------------------------------------------
(* Properties of the queue generation (specification Spec). *)

Events(ev) == {i \in DOMAIN wlog : wlog[i].ev = ev}

EventsOf(ev, job) == {i \in Events(ev) : wlog[i].job = job}

\* C1: no two sessions are ever recording at once: start_recording never
\* runs while a session is already recording, so an open session's buffer
\* and focus snapshot are never reset by a second start.
C1_NoStartWhileRecording ==
    last_op.op = "start" => ~last_op.was_recording

C4_FifoOrder ==
    /\ [](\A k \in DOMAIN work_queue : work_queue[k].id = wjob.id + k)
    /\ [][wjob' # wjob =>
            /\ wjob'.id = wjob.id + 1
            /\ wjob = NoTask \/ wlog[Len(wlog)].ev = "done"]_vars

\* the second session's task was put while the first one's call was in
\* flight
C4_Witness ==
    /\ wpc = "call"
    /\ wjob.kind = "transcribe"
    /\ \E k \in DOMAIN work_queue : work_queue[k].sid > wjob.sid

\* C5: at most one call of the model (warmup or transcribe) is in flight.
C5_OneCallInFlight == in_flight <= 1

\* a transcription call is in flight while a task waits and a session records
C5_Witness ==
    /\ in_flight = 1
    /\ wpc = "call"
    /\ work_queue # <<>>
    /\ recording

\* C6: when the model raises, the failure is caught at the task boundary
\* and the worker keeps running: it is never dead.
C6_WorkerSurvivesFailure ==
    (\E i \in Events("raise") : wlog[i].arg = "model") => wpc # "dead"

\* C7: the samples passed to the model for a task are exactly the blocks of
\* the session that put the task: none from another session, none missing.
C7_AudioIsTheSessionsAudio ==
    wpc = "call" =>
       /\ \A k \in DOMAIN waudio : waudio[k].sid = wjob.sid
       /\ \A k \in DOMAIN wjob.frames :
             \E m \in DOMAIN waudio : waudio[m] = wjob.frames[k]

\* C8: the application paste_text activates for a task is the application
\* that was frontmost when the task's session started.
C8_ActivatesSessionApp ==
    [][(wpc = "paste" /\ wpc' = "pbcopy") => source_app = wjob.app]_vars

\* C9: if the frontmost application changed from the one of the recording's
\* start to another while the task's call was in flight, and no recording
\* was started since (the task before it being of another session),
\* paste_text activates the application of the start.
C9_ActivatesSnapshotAfterSwitch ==
    [][(/\ wpc = "paste" /\ wpc' = "pbcopy"
        /\ nstart = wjob.sid
        /\ \A i \in Events("get") : wlog[i].arg # wjob.sid
        /\ wfront = "switched"
        /\ frontmost # wjob.app)
          => (source_app = wjob.app /\ frontmost' = wjob.app)]_vars

Range(seq) == {seq[k] : k \in DOMAIN seq}

\* C11: the buffer is lossless and order-preserving: the sequence handed to
\* the model for a task holds blocks of the task's session only, in arrival
\* order, and every block that the callback accepted for that session (put
\* with the task, still in the buffer, or still in the callback's hands).
C11_LosslessInOrder ==
    wpc = "call" =>
       /\ \A k \in DOMAIN waudio : waudio[k].sid = wjob.sid
       /\ \A k, m \in DOMAIN waudio : k < m => waudio[k].id < waudio[m].id
       /\ \A b \in Range(wjob.frames) \cup Range(audio_data)
                     \cup Range(cb_block) :
             b.sid = wjob.sid => b \in Range(waudio)

\* what an ignored hotkey event may not touch: the flag, the buffer, the
\* focus snapshot, the job queue, the deferred callbacks, and the counts of
\* the starts and stops, which emit the signals
Ignored ==
    UNCHANGED <<recording, audio_data, source_app, session_app, work_queue,
                main_queue, nstart, nstop, nput, wlog>>

\* C12: a hotkey press handled while the recording flag is set is ignored:
\* it changes neither the flag, the buffer, the focus snapshot nor the job
\* queue, schedules no start and emits no signal.
C12_PressWhileRecordingIgnored ==
    [][(nev' = nev + 1 /\ last_op'.op = "press" /\ recording) => Ignored]_vars

\* a press was ignored in the middle of a recording that holds a block
C12_Witness ==
    /\ last_op = [op |-> "press", was_recording |-> TRUE]
    /\ recording
    /\ audio_data # <<>>
    /\ main_queue = <<>>

\* C13: a hotkey release handled while the recording flag is clear is
\* ignored, whatever callbacks are still deferred: it puts no task,
\* schedules no stop, emits no signal and changes no state.
C13_ReleaseWhileIdleIgnored ==
    [][(nev' = nev + 1 /\ last_op'.op = "release" /\ ~recording)
          => Ignored]_vars

\* a release was ignored while a deferred start was still to run and the
\* buffer of the session closed before still held its blocks
C13_Witness ==
    /\ last_op = [op |-> "release", was_recording |-> FALSE]
    /\ ~recording
    /\ main_queue # <<>>
    /\ audio_data # <<>>

\* C14: exactly one warmup task is submitted, at startup; it is at the head
\* of the queue before any transcribe task, so it is the first task the
\* worker takes, and the worker takes a transcribe task only once the task
\* before it, the warmup call first of all, is finished.
C14_WarmupFirst ==
    /\ [](\A k \in DOMAIN work_queue :
             work_queue[k].kind = "warmup" => k = 1 /\ wjob = NoTask)
    /\ [](wjob.kind = "warmup" => wjob = WarmupTask)
    /\ [][wjob' # wjob =>
            IF wjob = NoTask
            THEN wjob' = WarmupTask
            ELSE /\ wjob'.kind = "transcribe"
                 /\ wlog[Len(wlog)].ev = "done"
                 /\ in_flight = 0]_vars

\* a session's task waits behind the warmup call, which is in flight
C14_Witness ==
    /\ wpc = "warmup"
    /\ in_flight = 1
    /\ work_queue # <<>>
    /\ work_queue[1].kind = "transcribe"

\* C17: whatever the interleaving of the menu item with the hotkey events,
\* start_recording and stop_recording alternate strictly (a start finds the
\* flag clear, a stop finds it set), and no session puts more than one
\* task: no two tasks waiting or taken last are of the same session.
C17_ToggleSafe ==
    /\ last_op.op = "start" => ~last_op.was_recording
    /\ last_op.op = "stop" => last_op.was_recording
    /\ \A k \in DOMAIN work_queue :
          /\ work_queue[k].kind = "transcribe" => work_queue[k].sid # wjob.sid
          /\ \A m \in DOMAIN work_queue :
                k # m => work_queue[k].sid # work_queue[m].sid

\* C18: a failing write of the transcript does not block the delivery: the
\* clipboard was set and the paste injected before the write was tried,
\* and the worker is not stopped by the failure.
C18_WriteFailureHarmless ==
    \A i \in Events("raise") :
       wlog[i].arg = "write" =>
          /\ \E c \in Events("pbcopy") : \E p \in Events("paste") :
                c < p /\ p < i
          /\ wpc # "dead"

\* C19: for a task that pastes, the steps are done once each and in this
\* order: the application snapshotted at the start of the task's session is
\* activated, the clipboard is set, the paste is injected, and only then is
\* the reference to the focus target cleared: it is still set when the
\* paste is injected.
C19_PasteOrder ==
    \A p \in Events("paste") :
       /\ Events("paste") = {p}
       /\ Cardinality(Events("activate")) = 1
       /\ Cardinality(Events("pbcopy")) = 1
       /\ \A a \in Events("activate") : \A c \in Events("pbcopy") :
             /\ a < c /\ c < p
             /\ wlog[a].arg = wjob.app
       /\ \A d \in Events("saved") : p < d
       /\ wpc = "save" => source_app # None

\* the worker is inside a task: between get() and the task's end
Busy == wpc \notin {"idle", "dead"}

\* C22: a start is possible while an earlier session is queued or being
\* transcribed.  A start scheduled on the main loop can always run, whatever
\* the worker does and however long the work queue is; the start sets the
\* flag and touches neither the work queue nor the worker's task, locals or
\* position; a task in progress can always take its next step, is replaced
\* only between two tasks and leaves the worker only by ending or raising;
\* the tasks that wait are all younger than the one in progress.
C22_StartWhileBusy ==
    /\ [](main_queue # <<>> => ENABLED MainLoopRun)
    /\ [][nstart' = nstart + 1 =>
             /\ recording'
             /\ UNCHANGED <<work_queue, wpc, wjob, waudio, wtext, in_flight,
                            wlog>>]_vars
    /\ [](Busy => ENABLED Worker)
    /\ [][wjob' # wjob => wpc = "idle"]_vars
    /\ [][(Busy /\ ~Busy') =>
             wlog'[Len(wlog')].ev \in {"done", "raise"}]_vars
    /\ [](\A k \in DOMAIN work_queue : work_queue[k].id > wjob.id)

\* a session was started while the model was working on an earlier one:
\* the buffer the call was made with has been reset since
C22_Witness ==
    /\ wpc = "call" /\ wjob.kind = "transcribe"
    /\ recording /\ last_op.op = "start"
    /\ audio_data = <<>>
    /\ wjob.sid < nstart

\* the task taken last ended without a transcript: the model raised, or
\* it returned text that is empty after trimming
EndedWithoutText ==
    \/ Events("empty") # {}
    \/ \E i \in Events("raise") : wlog[i].arg = "model"

\* C23: no retry.  The model is called at most once for a task, and after
\* a failed call or an empty result no task of the same session is on the
\* work queue: the session is not enqueued again.
C23_NoRetry ==
    /\ Cardinality(Events("call")) <= 1
    /\ (wjob.kind = "transcribe" /\ EndedWithoutText) =>
          \A k \in DOMAIN work_queue : work_queue[k].sid # wjob.sid

C25_ActivatesOnlyIfDiffers ==
    wpc = "pbcopy" => (Events("activate") # {} <=> wfront = "other")

\* C25 as amended: paste_text calls the activation whenever the reference
\* is set, also when its application is frontmost already, and never when
\* the reference is None.
C25_ActivatesWheneverSet ==
    wpc = "pbcopy" =>
       /\ Events("activate") # {} <=> wfront \in {"same", "other"}
       /\ Cardinality(Events("activate")) <= 1

\* the activation was called for an application that was frontmost already
C25_Witness ==
    /\ wpc = "pbcopy"
    /\ wfront = "same"
    /\ \E i \in Events("activate") : wlog[i].arg = frontmost

\* sample counts around the threshold, each as a buffer of one block
BoundarySamples == {1, 1600, 4799, 4800, 4801, 9600}

\* C26: the too-short decision is a function of the number of samples
\* captured: 0.3 s at 16000 samples per second is 4800 samples, a buffer is
\* too short exactly when it totals less than 4800, and a task is dropped
\* as too short only below 4800 and transcribed only from 4800 on, 4800
\* included.
C26_ThresholdIsSampleCount ==
    /\ MIN_RECORD_SAMPLES * 10 = MIN_RECORD_TENTHS * SAMPLE_RATE
    /\ \A n \in BoundarySamples :
          TooShort(<<[id |-> 1, sid |-> 1, size |-> n]>>)
             <=> n < MIN_RECORD_SAMPLES
    /\ \A i \in Events("too_short") :
          Samples(wlog[i].arg) < MIN_RECORD_SAMPLES
    /\ (wjob.kind = "transcribe" /\ wpc = "call") =>
          Samples(waudio) >= MIN_RECORD_SAMPLES

\* the model is called with a recording of exactly 4800 samples
C26_Witness ==
    /\ wjob.kind = "transcribe"
    /\ wpc = "call"
    /\ Samples(waudio) = MIN_RECORD_SAMPLES

\* C27: the buffer is mutated only by the audio callback while the flag is
\* set, and is frozen once stop_recording has closed the session: while the
\* flag is clear the buffer changes only when a start replaces it.
C27_FrozenAfterStop ==
    [][(~recording /\ audio_data' # audio_data) => nstart' = nstart + 1]_vars

\* C28: the put of stop_recording never waits and appends at the tail.  A
\* stop that is due can always run, whatever waits on the work queue and
\* whatever the worker does; the step that puts a task is the stop itself,
\* it adds the task behind those that wait and leaves them and the worker
\* alone.
C28_PutNeverBlocks ==
    /\ []((main_queue # <<>> /\ Head(main_queue) = "stop")
             => ENABLED MainLoopRun)
    /\ []((recording /\ nev < MaxEvents) => ENABLED toggle_recording)
    /\ [][nput' = nput + 1 =>
             /\ nstop' = nstop + 1
             /\ ~recording'
             /\ Len(work_queue') = Len(work_queue) + 1
             /\ SubSeq(work_queue', 1, Len(work_queue)) = work_queue
             /\ work_queue'[Len(work_queue')].id = nput'
             /\ UNCHANGED <<wpc, wjob, in_flight>>]_vars
    /\ [][(nstop' = nstop + 1 /\ audio_data # <<>>) => nput' = nput + 1]_vars

\* the last stop put its task behind a waiting one while a call of the model
\* was in flight, and that task is the last of the queue
C28_Witness ==
    /\ last_op.op = "stop"
    /\ last_op.busy
    /\ Len(work_queue) >= 2
    /\ work_queue[Len(work_queue)].id = nput

\* the events of the blocking work: the call of the model, the focus
\* activation, the clipboard write, the paste injection, the transcript
BlockingEvents == {"call", "activate", "pbcopy", "paste", "saved"}

\* C29: the blocking work is done by the worker only.  A step that calls the
\* model, activates an application, writes the clipboard, injects the paste
\* or writes the transcript is a step of the worker inside a task: it is no
\* step of the audio callback, of the listener or of start_recording and
\* stop_recording, whose state it leaves alone.
C29_BlockingWorkOnWorker ==
    /\ [][(\/ in_flight' # in_flight
           \/ clipboard' # clipboard
           \/ wlog' # wlog) => UNCHANGED wframe]_vars
    /\ [][in_flight' > in_flight => wpc \in {"idle", "concat"}]_vars
    /\ [][clipboard' # clipboard => wpc = "pbcopy"]_vars
    /\ [](\A i \in DOMAIN wlog :
             wlog[i].ev \in BlockingEvents => wlog[i].job = wjob.id)

\* the worker has done all five kinds of blocking work for a task, and a
\* new recording is under way
C29_Witness ==
    /\ \A ev \in BlockingEvents : Events(ev) # {}
    /\ wjob.kind = "transcribe"
    /\ recording
    /\ nstart > wjob.sid

\* C30: the recording flag has a single writer.  It changes only in a step
\* of start_recording, which sets it, or of stop_recording, which clears
\* it; the audio callback, the worker (warmup, transcription, paste) and the
\* listener leave it as it is.
C30_SingleWriterOfFlag ==
    /\ [][recording' # recording =>
             \/ nstart' = nstart + 1 /\ recording'
             \/ nstop' = nstop + 1 /\ ~recording']_vars
    /\ [][(\/ cb_block' # cb_block
           \/ audio_data' # audio_data /\ nstart' = nstart
           \/ wpc' # wpc
           \/ wlog' # wlog
           \/ main_queue' = Append(main_queue, "start")
           \/ main_queue' = Append(main_queue, "stop"))
             => UNCHANGED recording]_vars

\* the flag was set and cleared again while the callback held a block and
\* the worker was inside a model call
C30_Witness ==
    /\ ~recording
    /\ nstop >= 1
    /\ cb_block # <<>>
    /\ wpc = "call"

\* everything but the history of the last event
AllButLastOp ==
    <<recording, audio_data, cb_block, frontmost, clipboard, nstart, nstop,
      nblk, nev, qvars, hvars, dvars>>

\* C32: the handlers filter for the hotkey.  A press or release of any other
\* key, whatever the state it arrives in, starts and stops nothing, puts
\* nothing on the main loop or on the work queue, and leaves every field as
\* it is.
C32_OtherKeysIgnored ==
    [][(last_op'.op = "other" /\ last_op' # last_op)
          => UNCHANGED AllButLastOp]_vars

\* another key was hit during a recording, while the worker was inside a
\* call of the model: the recording goes on
C32_Witness ==
    /\ last_op = [op |-> "other", was_recording |-> TRUE]
    /\ recording
    /\ in_flight = 1
    /\ main_queue = <<>>

\* the ids a task can have: the warmup is 1, and every put follows an event
TaskIds == 1 .. (MaxEvents + 1)

\* the transcribe task with this id waits on the work queue
Waiting(id) ==
    \E k \in DOMAIN work_queue :
       work_queue[k].id = id /\ work_queue[k].kind = "transcribe"

\* the task with this id was taken and has ended: pasted, dropped as empty
\* or too short, or failed
Finished(id) ==
    /\ wjob.id = id
    /\ ~Busy
    /\ \E i \in DOMAIN wlog : wlog[i].ev \in {"done", "raise"}

\* C33: under fair scheduling of the worker, with calls that return or
\* raise, every transcribe task put on the work queue is eventually taken
\* and ends, in exactly one way.
C33_EveryJobEnds ==
    /\ \A id \in TaskIds : Waiting(id) ~> Finished(id)
    /\ [](Cardinality(Events("done") \cup Events("raise")) <= 1)

\* C34: stop_recording puts a transcribe task only if the buffer holds at
\* least one block: a stop that finds the buffer empty clears the flag and
\* leaves the work queue as it is.
C34_EmptyBufferPutsNothing ==
    /\ [][(nstop' = nstop + 1 /\ audio_data = <<>>) =>
             /\ ~recording'
             /\ UNCHANGED <<work_queue, nput, audio_data>>]_vars
    /\ [][nput' = nput + 1 => audio_data # <<>>]_vars
    /\ [](\A k \in DOMAIN work_queue :
             work_queue[k].kind = "transcribe" => work_queue[k].frames # <<>>)

\* a recording was closed before any block arrived: only the warmup was
\* ever put
C34_Witness ==
    /\ last_op.op = "stop"
    /\ last_op.was_recording
    /\ last_op.samples = 0
    /\ ~recording
    /\ nput = 1

----------------------------------------------------------------------------
(* Properties of the thread generation (specification SpecH). *)

TEvents(t, ev) ==
    {i \in DOMAIN threads[t].log : threads[t].log[i].ev = ev}

Ended(t) == threads[t].pc \in {"done", "dead"}

\* every call of the model returned text that is not empty after strip(),
\* and no write failed
ModelAlwaysAnswers ==
    \A t \in DOMAIN threads :
       /\ TEvents(t, "empty") = {}
       /\ \A i \in TEvents(t, "raise") :
             threads[t].log[i].arg \notin {"model", "write"}

\* C2: a recording of at least 0.3 s whose transcription is not empty is
\* pasted exactly once and gets exactly one history entry, and the text
\* pasted is the trimmed output of the model.
C2_OnePasteOneEntry ==
    \A t \in DOMAIN threads :
       (Ended(t) /\ Samples(threads[t].frames) >= MIN_RECORD_SAMPLES
          /\ ModelAlwaysAnswers)
       => /\ Cardinality(TEvents(t, "paste")) = 1
          /\ Cardinality(TEvents(t, "insert")) = 1
          /\ \A i \in TEvents(t, "paste") :
                \E j \in TEvents(t, "text") :
                   threads[t].log[i].arg = Strip(threads[t].log[j].arg)

\* the texts the model returned to thread t, as returned
Returned(t) == TEvents(t, "text") \cup TEvents(t, "empty")

\* C15: when the text returned is empty after trimming, the thread signals
\* "no transcription" once and ends; it sets no clipboard, injects no paste,
\* writes no transcript and inserts no history entry.
C15_EmptyIsDiscarded ==
    /\ [](\A t \in DOMAIN threads : \A i \in Returned(t) :
             Strip(threads[t].log[i].arg) = <<>> =>
                /\ TEvents(t, "empty") = {i}
                /\ threads[t].pc = "done"
                /\ TEvents(t, "saved") = {}
                /\ TEvents(t, "pbcopy") = {}
                /\ TEvents(t, "paste") = {}
                /\ TEvents(t, "insert") = {})
    /\ [][\A t \in DOMAIN threads :
            (threads[t].pc = "call" /\ threads'[t].pc = "done")
               => UNCHANGED <<clipboard, dir_exists, transcripts,
                              recent_transcriptions, nrec>>]_vars

\* the model returned blank text for a recording long enough to be sent
C15_Witness ==
    \E t \in DOMAIN threads :
       /\ TEvents(t, "empty") # {}
       /\ threads[t].pc = "done"
       /\ Samples(threads[t].audio) >= MIN_RECORD_SAMPLES

RECURSIVE SumSizes(_)
SumSizes(blocks) ==
    IF blocks = {} THEN 0
    ELSE LET b == CHOOSE x \in blocks : TRUE
         IN  b.size + SumSizes(blocks \ {b})

\* the blocks accepted for the session that spawned thread t: those in the
\* buffer when it was stopped and those appended late
Captured(t) ==
    {b \in Range(threads[t].frames) \cup Range(threads[t].audio)
           \cup Range(audio_data) \cup Range(cb_block) :
        b.sid = threads[t].sid}

\* C16: a recording whose captured samples total less than 0.3 s (in the
\* buffer when it was stopped, and counting the blocks of its session that
\* were appended late) has no effect on delivery: the thread spawned for it
\* never calls the model, sets no clipboard, injects no paste, writes no
\* transcript and inserts no history entry.
C16_ShortHasNoEffect ==
    \A t \in DOMAIN threads :
       (/\ Samples(threads[t].frames) < MIN_RECORD_SAMPLES
        /\ SumSizes(Captured(t)) < MIN_RECORD_SAMPLES) =>
          /\ TEvents(t, "call") = {}
          /\ TEvents(t, "saved") = {}
          /\ TEvents(t, "pbcopy") = {}
          /\ TEvents(t, "paste") = {}
          /\ TEvents(t, "insert") = {}

\* C20: a click on an item of the recent menu puts the text of that item's
\* entry on the clipboard and does nothing else: no paste is injected (no
\* thread takes a step), and the recent list, its menu, the recording
\* state and the transcriptions under way are unchanged.
C20_CopyOnlyCopies ==
    [][(nev' = nev + 1 /\ last_op'.op = "copy") =>
          /\ last_op'.entry \in DOMAIN recent_menu
          /\ clipboard' = recent_menu[last_op'.entry]
          /\ UNCHANGED <<recent_transcriptions, recent_menu, recording,
                         audio_data, cb_block, threads, dir_exists,
                         transcripts, nrec, nstart, nstop>>]_vars

\* the last item of a menu of several entries was clicked and its text is
\* on the clipboard; it is not the text of the first item, which a
\* transcription has delivered
C20_Witness ==
    /\ last_op.op = "copy"
    /\ last_op.entry > 1
    /\ clipboard = recent_menu[last_op.entry]
    /\ clipboard # recent_menu[1]
    /\ \E t \in DOMAIN threads :
          /\ threads[t].pc = "done"
          /\ threads[t].text = recent_menu[1]

\* C21: a history entry is created only for a transcription that returned
\* text not empty after trimming, and for each of them: an insert follows a
\* non-empty text in its thread, and a thread that has ended has inserted
\* exactly one entry if the model returned it non-empty text and none
\* otherwise (too short, empty text, failure).
C21_EntryIffNonEmptyText ==
    \A t \in DOMAIN threads :
       /\ \A i \in TEvents(t, "insert") :
             \E j \in TEvents(t, "text") :
                j < i /\ Strip(threads[t].log[j].arg) # <<>>
       /\ Ended(t) =>
             Cardinality(TEvents(t, "insert")) =
                IF \E j \in Returned(t) : Strip(threads[t].log[j].arg) # <<>>
                THEN 1 ELSE 0

MidRecord(t) == threads[t].pc \in {"slice", "store"}

\* no transcript was written since the startup: the files are those the
\* startup found, and the recent list is the one it loaded
AsLoaded == \A t \in DOMAIN threads : TEvents(t, "saved") = {}

\* the files modified later than f
NewerThan(f) == {g \in transcripts : g.mtime > f.mtime}

\* C31: the recent list loaded at startup holds min(5, number of transcript
\* files) entries: the i-th entry is the stem and text of the file that
\* has exactly i - 1 files newer than it, so they are the most recently
\* modified files, newest first; without a transcripts directory the list
\* is empty.
C31_SeededFromTranscripts ==
    AsLoaded =>
       /\ Len(recent_transcriptions) =
             IF Cardinality(transcripts) < HISTORY_LIMIT
             THEN Cardinality(transcripts) ELSE HISTORY_LIMIT
       /\ \A i \in DOMAIN recent_transcriptions :
             \E f \in transcripts :
                /\ Cardinality(NewerThan(f)) = i - 1
                /\ recent_transcriptions[i].ts = f.stem
                /\ recent_transcriptions[i].text = f.text
       /\ ~dir_exists => recent_transcriptions = <<>>

\* the startup found more files than the list holds, and a recording has
\* been made since without a transcript written yet
C31_Witness ==
    /\ AsLoaded
    /\ Cardinality(transcripts) > HISTORY_LIMIT
    /\ Len(recent_transcriptions) = HISTORY_LIMIT
    /\ threads # <<>>

\* C10: the recent list is ordered newest first, and between two record
\* operations it holds at most 5 entries.
C10_BoundedNewestFirst ==
    /\ \A i, j \in DOMAIN recent_transcriptions :
          i < j => recent_transcriptions[i].ord > recent_transcriptions[j].ord
    /\ (\A t \in DOMAIN threads : ~MidRecord(t))
          => Len(recent_transcriptions) <= HISTORY_LIMIT

\* an entry was recorded on a full list: the newest is first, the oldest
\* was evicted
C10_Witness ==
    /\ \A t \in DOMAIN threads : ~MidRecord(t)
    /\ \E t \in DOMAIN threads : TEvents(t, "insert") # {}
    /\ Len(recent_transcriptions) = HISTORY_LIMIT
    /\ recent_transcriptions[1].ord = nrec
    /\ nrec > HISTORY_LIMIT

----------------------------------------------------------------------------
(* Properties of the distribution script (specification SpecD). *)

\* the steps in the order of the script
StepOrder ==
    <<"check_requirements", "generate_screenshots", "generate_descriptions",
      "generate_metadata", "build_app", "archive_app", "export_ipa",
      "upload_to_app_store">>

\* the steps whose failure ends the pipeline
GatingSteps == {"check_requirements", "build_app", "archive_app", "export_ipa"}

\* the place of a step in the order
Rank(step) == CHOOSE k \in DOMAIN StepOrder : StepOrder[k] = step

StepsCalled == {d_log[i].step : i \in DOMAIN d_log}

\* C35: full_distribution calls the steps in the fixed order, each at most
\* once; a step is called only if every step before it returned, and every
\* gating step before it succeeded; the build steps are called only without
\* skip_build and the upload only without skip_build and skip_upload, and
\* then it is called once the export succeeded; the function returns False
\* exactly when the step called last is a gating step that failed, and at
\* once.
C35_PipelineOrder ==
    /\ \A i, j \in DOMAIN d_log :
          i < j => Rank(d_log[i].step) < Rank(d_log[j].step)
    /\ \A i \in DOMAIN d_log :
          i < Len(d_log) => d_log[i].res = "ok" \/
             (d_log[i].step = "upload_to_app_store" /\ d_log[i].res = "failed")
    /\ \A i \in DOMAIN d_log :
          d_log[i].step \in {"build_app", "archive_app", "export_ipa",
                             "upload_to_app_store"}
             => /\ ~d_args.skip_build
                /\ \A k \in 1 .. (Rank(d_log[i].step) - 1) :
                      \E j \in 1 .. (i - 1) : d_log[j].step = StepOrder[k]
    /\ "upload_to_app_store" \in StepsCalled => ~d_args.skip_upload
    /\ (d_ret = "True" /\ ~d_args.skip_build /\ ~d_args.skip_upload)
          => "upload_to_app_store" \in StepsCalled
    /\ d_ret = "False" <=>
          /\ d_log # <<>>
          /\ d_log[Len(d_log)].step \in GatingSteps
          /\ d_log[Len(d_log)].res = "failed"
    /\ d_ret = "True" => Len(d_log) >= 4

\* the whole pipeline ran, the upload included, and returned True
C35_Witness ==
    /\ d_ret = "True"
    /\ Len(d_log) = Len(StepOrder)

====
